---- MODULE Spec2Model ----
(***************************************************************************)
(* Model of drake's Polynomial<double> (src/drake/util/Polynomial.cpp).    *)
(*                                                                         *)
(* A polynomial is a record [monomials, is_univariate]; monomials is the   *)
(* std::vector<Monomial> in its storage order, a monomial is a record      *)
(* [coefficient, terms] and terms is the std::vector<Term> in its storage  *)
(* order, a term being [var, power].  Coefficients are exact rationals     *)
(* <<numerator, denominator>> in lowest terms: the arithmetic the code     *)
(* does in double, without the rounding.                                   *)
(***************************************************************************)
EXTENDS Integers, Sequences, FiniteSets, TLC

VARIABLES p, q, last, steps, name, idx, id, text, nerr, npc, probe, null_offset,
          tp, tq, tlast, tsteps

vars == <<p, q, last, steps, name, idx, id, text, nerr, npc, probe, null_offset,
          tp, tq, tlast, tsteps>>
polyVars == <<p, q, last, steps>>
nameVars == <<name, idx, id, text, nerr, npc, probe, null_offset>>
trigVars == <<tp, tq, tlast, tsteps>>

-----------------------------------------------------------------------------
(* Bounds of the model *)

\* number of operations applied after the two polynomials are constructed
MaxSteps == 2
\* longest term list handed to the coefficient+term-list constructor
MaxTerms == 2
\* longest variable name handed to variableNameToId
MaxNameLen == 4
\* number of nested calls the stack has room for
MaxFrames == 3

-----------------------------------------------------------------------------
(* Sequence helpers *)

RemoveAt(s, i) == [k \in 1..(Len(s) - 1) |-> IF k < i THEN s[k] ELSE s[k + 1]]

Min(S) == CHOOSE a \in S : \A b \in S : a <= b

Max(S) == CHOOSE a \in S : \A b \in S : a >= b

Range(s) == {s[k] : k \in DOMAIN s}

RECURSIVE SeqsUpTo(_, _)
SeqsUpTo(S, n) ==
    IF n = 0 THEN {<<>>}
    ELSE LET shorter == SeqsUpTo(S, n - 1)
         IN  shorter \cup {Append(s, e) : s \in {t \in shorter : Len(t) = n - 1}, e \in S}

-----------------------------------------------------------------------------
(* CoefficientType: exact rationals <<n, d>>, d > 0, gcd(n, d) = 1 *)

Abs(a) == IF a < 0 THEN -a ELSE a

RECURSIVE Gcd(_, _)
Gcd(a, b) == IF b = 0 THEN a ELSE Gcd(b, a % b)

Rat(n, d) ==
    LET s == IF d < 0 THEN -1 ELSE 1
        g == Gcd(Abs(n), Abs(d))
    IN  <<(s * n) \div g, (s * d) \div g>>

Zero == <<0, 1>>
One == <<1, 1>>
MinusOne == <<-1, 1>>
FromInt(k) == <<k, 1>>

RAdd(a, b) == Rat(a[1] * b[2] + b[1] * a[2], a[2] * b[2])
RNeg(a) == <<-a[1], a[2]>>
RSub(a, b) == RAdd(a, RNeg(b))
RMul(a, b) == Rat(a[1] * b[1], a[2] * b[2])
\* b # 0
RDiv(a, b) == Rat(a[1] * b[2], a[2] * b[1])

RECURSIVE RPow(_, _)
RPow(a, k) == IF k = 0 THEN One ELSE RMul(a, RPow(a, k - 1))

-----------------------------------------------------------------------------
(* VarType: a 32-bit unsigned integer, held as two 16-bit halves           *)
(* <<high, low>> so that every intermediate value stays small.  All        *)
(* arithmetic is modulo 2^32, as unsigned int arithmetic is.               *)

\* 2^16
HalfWord == 65536

\* an integer 0 <= n < 2^31 as a VarType
U(n) == <<n \div HalfWord, n % HalfWord>>

UAdd(a, b) ==
    LET lo == a[2] + b[2]
    IN  <<(a[1] + b[1] + (lo \div HalfWord)) % HalfWord, lo % HalfWord>>

UIsZero(a) == a[1] = 0 /\ a[2] = 0

\* a / 2: always below 2^31, so a plain integer
UHalf(a) == a[1] * (HalfWord \div 2) + (a[2] \div 2)

\* a * b by doubling a along the bits of b
RECURSIVE UMulBits(_, _)
UMulBits(a, b) ==
    IF UIsZero(b) THEN U(0)
    ELSE LET rest == UMulBits(UAdd(a, a), U(UHalf(b)))
         IN  IF b[2] % 2 = 1 THEN UAdd(a, rest) ELSE rest

UGreater(a, b) == a[1] > b[1] \/ (a[1] = b[1] /\ a[2] > b[2])

UMul(a, b) == IF UGreater(b, a) THEN UMulBits(b, a) ELSE UMulBits(a, b)

\* std::numeric_limits<VarType>::max()
VarTypeMax == <<HalfWord - 1, HalfWord - 1>>

-----------------------------------------------------------------------------
(* Variable names and identifiers.  A name is the sequence of its          *)
(* characters.                                                             *)

kNameChars ==
    <<"@", "#", "_", ".", "a", "b", "c", "d", "e", "f", "g", "h", "i", "j", "k",
      "l", "m", "n", "o", "p", "q", "r", "s", "t", "u", "v", "w", "x", "y", "z">>

kNumNameChars == Len(kNameChars)

kNameLength == 4

kMaxNamePart == 923521

\* Polynomial::isValidVariableName
isValidVariableName(nm) ==
    IF Len(nm) < 1 THEN FALSE
    ELSE \A i \in DOMAIN nm : \E k \in DOMAIN kNameChars : kNameChars[k] = nm[i]

\* strchr(kNameChars, ch) - kNameChars, for a character of the alphabet
CharOffset(ch) == (CHOOSE k \in DOMAIN kNameChars : kNameChars[k] = ch) - 1

\* static_cast<VarType>(strchr(kNameChars, ch) - kNameChars).  For a
\* character that is not in kNameChars strchr returns a null pointer and the
\* difference is whatever the address of kNameChars makes it: null_offset,
\* the same value for every such character of one run.
Offset(ch) ==
    IF \E k \in DOMAIN kNameChars : kNameChars[k] = ch THEN U(CharOffset(ch))
    ELSE null_offset

\* NamePartLoop with the multiplier stepped by kNumNameChars, not by
\* kNumNameChars + 1
RECURSIVE NamePartLoop_Base30(_, _, _, _)
NamePartLoop_Base30(nm, i, multiplier, name_part) ==
    IF i < 1 THEN name_part
    ELSE NamePartLoop_Base30(nm, i - 1,
                             UMul(multiplier, U(kNumNameChars)),
                             UAdd(name_part, UMul(UAdd(Offset(nm[i]), U(1)), multiplier)))

\* the loop of variableNameToId: i runs from the last character to the first
RECURSIVE NamePartLoop(_, _, _, _)
NamePartLoop(nm, i, multiplier, name_part) ==
    IF i < 1 THEN name_part
    ELSE NamePartLoop(nm, i - 1,
                      UMul(multiplier, U(kNumNameChars + 1)),
                      UAdd(name_part, UMul(UAdd(Offset(nm[i]), U(1)), multiplier)))

NamePart(nm) == NamePartLoop(nm, Len(nm), U(1), U(0))

\* MaxId without the division by 2
MaxId_Unhalved == (UHalf(VarTypeMax) \div kMaxNamePart) * 2

\* std::numeric_limits<VarType>::max() / 2 / kMaxNamePart
MaxId == UHalf(VarTypeMax) \div kMaxNamePart

\* the identifier of name part name_part and index m
EncodeId(name_part, m) == UMul(U(2), UAdd(name_part, UMul(U(kMaxNamePart), U(m - 1))))

variableNameToId(nm, m) ==
    LET name_part == NamePart(nm)
    IN  IF UGreater(name_part, U(kMaxNamePart))
        THEN [err |-> "name exceeds max allowed", val |-> U(0)]
        ELSE IF m > MaxId THEN [err |-> "name exceeds max ID", val |-> U(0)]
        ELSE IF m < 1 THEN [err |-> "m must be >0", val |-> U(0)]
        ELSE [err |-> "none", val |-> EncodeId(name_part, m)]

\* std::to_string of a non-negative integer, as the sequence of its digits
RECURSIVE to_string(_)
to_string(n) ==
    LET digit == <<"0", "1", "2", "3", "4", "5", "6", "7", "8", "9">>[(n % 10) + 1]
    IN  IF n < 10 THEN <<digit>> ELSE Append(to_string(n \div 10), digit)

RECURSIVE IntPow(_, _)
IntPow(b, e) == IF e = 0 THEN 1 ELSE b * IntPow(b, e - 1)

\* the loop of idToVariableName: i counts the kNameLength digits, high to low
RECURSIVE NameLoop(_, _, _, _)
NameLoop(name_part, i, multiplier, acc) ==
    IF i >= kNameLength THEN acc
    ELSE LET name_ind == (name_part \div multiplier) % (kNumNameChars + 1)
         IN  NameLoop(name_part, i + 1, multiplier \div (kNumNameChars + 1),
                      IF name_ind > 0 THEN Append(acc, kNameChars[name_ind]) ELSE acc)

\* the index part of an identifier
IdIndex(v) == UHalf(v) \div kMaxNamePart

idToVariableName(v) ==
    LET name_part == UHalf(v) % kMaxNamePart
        m == IdIndex(v)
        multiplier == IntPow(kNumNameChars + 1, kNameLength - 1)
        chars == NameLoop(name_part, 0, multiplier, <<>>)
        nm == IF chars = <<>> THEN <<kNameChars[1]>> ELSE chars
    IN  nm \o to_string(m + 1)

\* a second (name, index) pair and what variableNameToId made of it
Probe(nm, m, v, err) == [name |-> nm, idx |-> m, id |-> v, err |-> err]

UToInt(a) == a[1] * HalfWord + a[2]

-----------------------------------------------------------------------------
(* Monomials *)

Term(v, pw) == [var |-> v, power |-> pw]

Monomial(c, ts) == [coefficient |-> c, terms |-> ts]

\* Monomial::hasSameExponents; std::find compares terms by var and power
hasSameExponents(m, other) ==
    IF Len(m.terms) # Len(other.terms) THEN FALSE
    ELSE \A k \in DOMAIN m.terms : \E l \in DOMAIN other.terms : other.terms[l] = m.terms[k]

RECURSIVE ProductOfPowers(_, _)
ProductOfPowers(ts, k) ==
    IF k > Len(ts) THEN 1 ELSE ts[k].power * ProductOfPowers(ts, k + 1)

\* Monomial::getDegree
MonomialDegree(m) == IF m.terms = <<>> THEN 0 ELSE ProductOfPowers(m.terms, 1)

\* Monomial::getDegreeOf
getDegreeOf(m, v) ==
    LET at == {k \in DOMAIN m.terms : m.terms[k].var = v}
    IN  IF at = {} THEN 0 ELSE m.terms[Min(at)].power

\* the first loop of Monomial::factor: ok is false where it returns error
RECURSIVE FactorTerms(_, _, _, _)
FactorTerms(ts, k, divisor, acc) ==
    IF k > Len(ts) THEN [ok |-> TRUE, terms |-> acc]
    ELSE LET divisor_power == getDegreeOf(divisor, ts[k].var)
             new_term == Term(ts[k].var, ts[k].power - divisor_power)
         IN  IF ts[k].power < divisor_power THEN [ok |-> FALSE, terms |-> <<>>]
             ELSE FactorTerms(ts, k + 1, divisor,
                              IF new_term.power > 0 THEN Append(acc, new_term) ELSE acc)

\* factor without the loop over the terms of the divisor
factor_FirstLoopOnly(m, divisor) ==
    LET error == Monomial(Zero, <<>>)
        r == FactorTerms(m.terms, 1, divisor, <<>>)
    IN  IF ~r.ok THEN error
        ELSE Monomial(RDiv(m.coefficient, divisor.coefficient), r.terms)

\* Monomial::factor, divisor.coefficient # 0
factor(m, divisor) ==
    LET error == Monomial(Zero, <<>>)
        r == FactorTerms(m.terms, 1, divisor, <<>>)
    IN  IF ~r.ok THEN error
        ELSE IF \E l \in DOMAIN divisor.terms : getDegreeOf(m, divisor.terms[l].var) = 0
        THEN error
        ELSE Monomial(RDiv(m.coefficient, divisor.coefficient), r.terms)

-----------------------------------------------------------------------------
(* Polynomial: constructors *)

Poly(ms, uni) == [monomials |-> ms, is_univariate |-> uni]

\* The de-duplication pass.  i is the 1-based position of monomial i of the
\* code (which counts from 0), so the code's "j < i - 1" is "j <= i - 2" here.
RECURSIVE UniqueLoop(_, _, _, _)
UniqueLoop(ms, uni, unique_var, i) ==
    IF i < 1 THEN Poly(ms, uni)
    ELSE LET mi == ms[i]
             uni1 == IF mi.terms # <<>> /\ Len(mi.terms) > 1 THEN FALSE ELSE uni
             differs == mi.terms # <<>> /\ mi.terms[1].var # unique_var
             uni2 == IF differs /\ unique_var > 0 THEN FALSE ELSE uni1
             uv2 == IF differs /\ ~(unique_var > 0) THEN mi.terms[1].var ELSE unique_var
             matches == {j \in 1..(i - 2) : hasSameExponents(mi, ms[j])}
         IN  IF matches = {} THEN UniqueLoop(ms, uni2, uv2, i - 1)
             ELSE LET j == Min(matches)
                      merged == [ms EXCEPT ![j].coefficient = RAdd(@, mi.coefficient)]
                  IN  UniqueLoop(RemoveAt(merged, i), uni2, uv2, i - 1)

makeMonomialsUnique(P) == UniqueLoop(P.monomials, P.is_univariate, 0, Len(P.monomials))

\* Polynomial(const CoefficientType& scalar)
PolyScalar(c) == Poly(<<Monomial(c, <<>>)>>, TRUE)

\* The loop of Polynomial(coefficient, terms), i and j 1-based as above.
RECURSIVE TermsLoop(_, _, _)
TermsLoop(ts, uni, i) ==
    IF i < 1 THEN [terms |-> ts, is_univariate |-> uni]
    ELSE LET uni1 == IF i > 1 /\ ts[i].var # ts[1].var THEN FALSE ELSE uni
             matches == {j \in 1..(i - 2) : ts[j].var = ts[i].var}
         IN  IF matches = {} THEN TermsLoop(ts, uni1, i - 1)
             ELSE LET j == Min(matches)
                      merged == [ts EXCEPT ![j].power = @ + ts[i].power]
                  IN  TermsLoop(RemoveAt(merged, i), uni1, i - 1)

\* Polynomial(const CoefficientType coefficient, const vector<Term>& terms)
PolyTerms(c, ts) ==
    LET r == TermsLoop(ts, TRUE, Len(ts))
    IN  Poly(<<Monomial(c, r.terms)>>, r.is_univariate)

\* Polynomial(start, finish)
PolyRange(ms) == makeMonomialsUnique(Poly(ms, TRUE))

\* Polynomial(const CoefficientType& coeff, const VarType& v)
PolyVar(c, v) == Poly(<<Monomial(c, <<Term(v, 1)>>)>>, TRUE)

\* Polynomial(const string varname, const unsigned int num)
PolyName(nm, num) ==
    LET r == variableNameToId(nm, num)
    IN  IF r.err # "none" THEN [err |-> r.err, val |-> <<>>]
        ELSE [err |-> "none", val |-> PolyVar(One, UToInt(r.val))]


-----------------------------------------------------------------------------
(* Polynomial: queries *)

\* Polynomial::getDegree
getDegree(P) ==
    Max({0} \cup {MonomialDegree(P.monomials[k]) : k \in DOMAIN P.monomials})

\* Polynomial::getSimpleVariable
getSimpleVariable(P) ==
    IF Len(P.monomials) # 1 THEN 0
    ELSE IF Len(P.monomials[1].terms) # 1 THEN 0
    ELSE IF P.monomials[1].terms[1].power # 1 THEN 0
    ELSE P.monomials[1].terms[1].var

NotUnivariate == "only defined for univariate polynomials"

UnknownVariable == "don't know the variable name"

\* The loop of getCoefficients: entry k + 1 of vec is coefficients[k].
RECURSIVE CoefficientsLoop(_, _, _)
CoefficientsLoop(ms, k, vec) ==
    IF k > Len(ms) THEN vec
    ELSE LET at == IF ms[k].terms = <<>> THEN 0 ELSE ms[k].terms[1].power
         IN  CoefficientsLoop(ms, k + 1, [vec EXCEPT ![at + 1] = ms[k].coefficient])

\* Polynomial::getCoefficients
getCoefficients(P) ==
    IF ~P.is_univariate THEN [err |-> NotUnivariate, val |-> <<>>]
    ELSE LET deg == getDegree(P)
         IN  [err |-> "none",
              val |-> CoefficientsLoop(P.monomials, 1, [k \in 1..(deg + 1) |-> Zero])]

\* Polynomial::getVariables
getVariables(P) ==
    UNION {{P.monomials[k].terms[l].var : l \in DOMAIN P.monomials[k].terms} :
           k \in DOMAIN P.monomials}

\* Polynomial::isApprox, with exact coefficients
isApprox(P, other) ==
    LET a == getCoefficients(P)
        b == getCoefficients(other)
    IN  IF a.err # "none" THEN [err |-> a.err, val |-> FALSE]
        ELSE IF b.err # "none" THEN [err |-> b.err, val |-> FALSE]
        ELSE [err |-> "none", val |-> a.val = b.val]

\* Polynomial::roots.  Degrees 0 and 1 are solved in place; for higher
\* degrees the coefficients are handed to Eigen's PolynomialSolver, which
\* is outside this model: the result records what was handed over.
roots(P) ==
    IF ~P.is_univariate THEN [err |-> NotUnivariate, val |-> <<>>]
    ELSE LET coefficients == getCoefficients(P).val
             degree == Len(coefficients) - 1
         IN  IF degree = 0 THEN [err |-> "none", val |-> [kind |-> "roots", roots |-> <<>>]]
             ELSE IF degree = 1
             THEN [err |-> "none",
                   val |-> IF coefficients[2] = Zero
                           THEN [kind |-> "division by zero", roots |-> <<>>]
                           ELSE [kind |-> "roots",
                                 roots |-> <<RDiv(RNeg(coefficients[1]), coefficients[2])>>]]
             ELSE [err |-> "none", val |-> [kind |-> "solver", roots |-> coefficients]]

-----------------------------------------------------------------------------
(* Polynomial: substitution and calculus *)

\* PartialTerms multiplying by the value once, whatever the power
RECURSIVE PartialTerms_NoPower(_, _, _, _)
PartialTerms_NoPower(ts, k, var_values, acc) ==
    IF k > Len(ts) THEN acc
    ELSE IF ts[k].var \in DOMAIN var_values
         THEN PartialTerms_NoPower(ts, k + 1, var_values,
                                   Monomial(RMul(acc.coefficient, var_values[ts[k].var]),
                                            acc.terms))
         ELSE PartialTerms_NoPower(ts, k + 1, var_values,
                                   Monomial(acc.coefficient, Append(acc.terms, ts[k])))

\* the terms of one monomial in evaluatePartial
RECURSIVE PartialTerms(_, _, _, _)
PartialTerms(ts, k, var_values, acc) ==
    IF k > Len(ts) THEN acc
    ELSE IF ts[k].var \in DOMAIN var_values
         THEN PartialTerms(ts, k + 1, var_values,
                           Monomial(RMul(acc.coefficient, RPow(var_values[ts[k].var], ts[k].power)),
                                    acc.terms))
         ELSE PartialTerms(ts, k + 1, var_values,
                           Monomial(acc.coefficient, Append(acc.terms, ts[k])))

\* Polynomial::evaluatePartial
evaluatePartial(P, var_values) ==
    PolyRange([k \in DOMAIN P.monomials |->
                 PartialTerms(P.monomials[k].terms, 1, var_values,
                              Monomial(P.monomials[k].coefficient, <<>>))])

\* Polynomial::subs
subs(P, orig, replacement) ==
    Poly([k \in DOMAIN P.monomials |->
            Monomial(P.monomials[k].coefficient,
                     [l \in DOMAIN P.monomials[k].terms |->
                        IF P.monomials[k].terms[l].var = orig
                        THEN Term(replacement, P.monomials[k].terms[l].power)
                        ELSE P.monomials[k].terms[l]])],
         P.is_univariate)

\* DerivativeSteps lowering the power without multiplying the coefficient
RECURSIVE DerivativeSteps_PowerOnly(_, _, _)
DerivativeSteps_PowerOnly(m, k, derivative_order) ==
    IF k >= derivative_order THEN m
    ELSE DerivativeSteps_PowerOnly(
             Monomial(m.coefficient, [m.terms EXCEPT ![1].power = @ - 1]),
             k + 1, derivative_order)

\* "take the remaining derivatives": k counts the derivatives taken
RECURSIVE DerivativeSteps(_, _, _)
DerivativeSteps(m, k, derivative_order) ==
    IF k >= derivative_order THEN m
    ELSE DerivativeSteps(
             Monomial(RMul(m.coefficient, FromInt(m.terms[1].power)),
                      [m.terms EXCEPT ![1].power = @ - 1]),
             k + 1, derivative_order)

\* the monomial loop of derivative
RECURSIVE DerivativeLoop(_, _, _, _)
DerivativeLoop(ms, k, derivative_order, acc) ==
    IF k > Len(ms) THEN acc
    ELSE IF ms[k].terms # <<>> /\ ms[k].terms[1].power >= derivative_order
         THEN LET m == DerivativeSteps(ms[k], 0, derivative_order)
                  kept == IF m.terms[1].power < 1
                          THEN Monomial(m.coefficient, Tail(m.terms))
                          ELSE m
              IN  DerivativeLoop(ms, k + 1, derivative_order, Append(acc, kept))
         ELSE DerivativeLoop(ms, k + 1, derivative_order, acc)

\* derivative without the is_univariate guard
derivative_Unguarded(P, derivative_order) ==
    [err |-> "none",
     val |-> Poly(DerivativeLoop(P.monomials, 1, derivative_order, <<>>), TRUE)]

\* Polynomial::derivative
derivative(P, derivative_order) ==
    IF ~P.is_univariate THEN [err |-> NotUnivariate, val |-> <<>>]
    ELSE [err |-> "none",
          val |-> Poly(DerivativeLoop(P.monomials, 1, derivative_order, <<>>), TRUE)]

\* AttachVariable looking at the first monomial only
AttachVariable_FirstOnly(ms) ==
    IF ms # <<>> /\ ms[1].terms # <<>> THEN ms[1].terms[1].var ELSE 0

\* the variable integral gives to a constant monomial: terms[0].var of the
\* first monomial of ret that has a term, 0 when there is none
AttachVariable(ms) ==
    LET withTerm == {k \in DOMAIN ms : ms[k].terms # <<>>}
    IN  IF withTerm = {} THEN 0 ELSE ms[Min(withTerm)].terms[1].var

\* IntegralLoop raising the power without dividing the coefficient
RECURSIVE IntegralLoop_NoDivide(_, _)
IntegralLoop_NoDivide(ms, k) ==
    IF k > Len(ms) THEN [err |-> "none", val |-> ms]
    ELSE IF ms[k].terms = <<>>
         THEN LET v == AttachVariable(ms)
              IN  IF v < 1 THEN [err |-> UnknownVariable, val |-> <<>>]
                  ELSE IntegralLoop_NoDivide([ms EXCEPT ![k].terms = <<Term(v, 1)>>], k + 1)
         ELSE IntegralLoop_NoDivide([ms EXCEPT ![k].terms[1].power = @ + 1], k + 1)

\* the monomial loop of integral, rewriting ret in place
RECURSIVE IntegralLoop(_, _)
IntegralLoop(ms, k) ==
    IF k > Len(ms) THEN [err |-> "none", val |-> ms]
    ELSE IF ms[k].terms = <<>>
         THEN LET v == AttachVariable(ms)
              IN  IF v < 1 THEN [err |-> UnknownVariable, val |-> <<>>]
                  ELSE IntegralLoop([ms EXCEPT ![k].terms = <<Term(v, 1)>>], k + 1)
         ELSE LET m == ms[k]
                  raised == Monomial(RDiv(m.coefficient, FromInt(m.terms[1].power + 1)),
                                     [m.terms EXCEPT ![1].power = @ + 1])
              IN  IntegralLoop([ms EXCEPT ![k] = raised], k + 1)

\* integral without the monomial of the integration constant
integral_NoConstant(P, integration_constant) ==
    IF ~P.is_univariate THEN [err |-> NotUnivariate, val |-> <<>>]
    ELSE LET r == IntegralLoop(P.monomials, 1)
         IN  IF r.err # "none" THEN r
             ELSE [err |-> "none", val |-> Poly(r.val, TRUE)]

\* Polynomial::integral
integral(P, integration_constant) ==
    IF ~P.is_univariate THEN [err |-> NotUnivariate, val |-> <<>>]
    ELSE LET r == IntegralLoop(P.monomials, 1)
         IN  IF r.err # "none" THEN r
             ELSE [err |-> "none",
                   val |-> Poly(Append(r.val, Monomial(integration_constant, <<>>)), TRUE)]

-----------------------------------------------------------------------------
(* Polynomial: arithmetic *)

\* operator+=(const Polynomial&)
PlusEq(P, other) ==
    makeMonomialsUnique(Poly(P.monomials \o other.monomials, P.is_univariate))

\* operator-=(const Polynomial&)
MinusEq(P, other) ==
    makeMonomialsUnique(
        Poly(P.monomials \o
               [k \in DOMAIN other.monomials |->
                  Monomial(RMul(other.monomials[k].coefficient, MinusOne),
                           other.monomials[k].terms)],
             P.is_univariate))

\* the term loop of operator*=: the terms of other's monomial, one by one
RECURSIVE MultiplyTerms(_, _, _)
MultiplyTerms(ts, others, i) ==
    IF i > Len(others) THEN ts
    ELSE LET same == {j \in DOMAIN ts : ts[j].var = others[i].var}
         IN  IF same = {} THEN MultiplyTerms(Append(ts, others[i]), others, i + 1)
             ELSE MultiplyTerms([ts EXCEPT ![Min(same)].power = @ + others[i].power],
                                others, i + 1)

MultiplyMonomials(a, b) ==
    Monomial(RMul(a.coefficient, b.coefficient), MultiplyTerms(a.terms, b.terms, 1))

\* operator*=(const Polynomial&)
TimesEq(P, other) ==
    LET n == Len(other.monomials)
        new_monomials ==
            [k \in 1..(Len(P.monomials) * n) |->
               MultiplyMonomials(P.monomials[((k - 1) \div n) + 1],
                                 other.monomials[((k - 1) % n) + 1])]
    IN  makeMonomialsUnique(Poly(new_monomials, P.is_univariate))

\* position of the first constant monomial, 0 when there is none
ConstantAt(P) ==
    LET consts == {k \in DOMAIN P.monomials : P.monomials[k].terms = <<>>}
    IN  IF consts = {} THEN 0 ELSE Min(consts)

\* operator+=(const CoefficientType&)
PlusScalar(P, scalar) ==
    LET k == ConstantAt(P)
    IN  IF k > 0
        THEN Poly([P.monomials EXCEPT ![k].coefficient = RAdd(@, scalar)], P.is_univariate)
        ELSE Poly(Append(P.monomials, Monomial(scalar, <<>>)), P.is_univariate)

\* operator-=(const CoefficientType&)
MinusScalar(P, scalar) ==
    LET k == ConstantAt(P)
    IN  IF k > 0
        THEN Poly([P.monomials EXCEPT ![k].coefficient = RSub(@, scalar)], P.is_univariate)
        ELSE Poly(Append(P.monomials, Monomial(RNeg(scalar), <<>>)), P.is_univariate)

\* operator*=(const CoefficientType&)
TimesScalar(P, scalar) ==
    Poly([k \in DOMAIN P.monomials |->
            Monomial(RMul(P.monomials[k].coefficient, scalar), P.monomials[k].terms)],
         P.is_univariate)

\* operator/=(const CoefficientType&), scalar # 0
DivScalar(P, scalar) ==
    Poly([k \in DOMAIN P.monomials |->
            Monomial(RDiv(P.monomials[k].coefficient, scalar), P.monomials[k].terms)],
         P.is_univariate)

\* operator-() const
Negate(P) ==
    Poly([k \in DOMAIN P.monomials |->
            Monomial(RNeg(P.monomials[k].coefficient), P.monomials[k].terms)],
         P.is_univariate)


-----------------------------------------------------------------------------
(* TrigPoly (src/drake/util/TrigPoly.h): a record [poly, sin_cos_map];     *)
(* sin_cos_map is the std::map, a function from the variables that have an *)
(* entry to their SinCosVars [s, c].                                       *)

SinCosVars(s, c) == [s |-> s, c |-> c]

\* the SinCosMap of a default-constructed TrigPoly
EmptyMap == <<>>

\* TrigPoly(const PolyType& p, const SinCosMap& _sin_cos_map)
TrigPoly(P, sin_cos_map) == [poly |-> P, sin_cos_map |-> sin_cos_map]

\* TrigPoly(): no monomial, no entry
TrigPolyDefault == TrigPoly(PolyRange(<<>>), EmptyMap)

\* TrigPoly(const CoefficientType& scalar)
TrigPolyScalar(scalar) == TrigPoly(PolyScalar(scalar), EmptyMap)

NotSimple == "q, s, and c must all be simple polynomials (in the msspoly sense)"

\* TrigPoly(const PolyType& q, const PolyType& s, const PolyType& c)
TrigPolySinCos(Q, S, C) ==
    IF getDegree(Q) # 1 \/ getDegree(S) # 1 \/ getDegree(C) # 1
    THEN [err |-> NotSimple, val |-> <<>>]
    ELSE [err |-> "none",
          val |-> TrigPoly(Q, getSimpleVariable(Q)
                                :> SinCosVars(getSimpleVariable(S), getSimpleVariable(C)))]

\* MapInsert with the entries of other replacing those of the map
MapInsert_Overwrite(sin_cos_map, other) ==
    [k \in DOMAIN sin_cos_map \cup DOMAIN other |->
       IF k \in DOMAIN other THEN other[k] ELSE sin_cos_map[k]]

\* std::map::insert(first, last): a key the map already has keeps its entry
MapInsert(sin_cos_map, other) ==
    [k \in DOMAIN sin_cos_map \cup DOMAIN other |->
       IF k \in DOMAIN sin_cos_map THEN sin_cos_map[k] ELSE other[k]]

\* TrigPoly::operator+=(const TrigPoly&)
TrigPlusEq(P, other) ==
    TrigPoly(PlusEq(P.poly, other.poly), MapInsert(P.sin_cos_map, other.sin_cos_map))

\* TrigPoly::operator-=(const TrigPoly&)
TrigMinusEq(P, other) ==
    TrigPoly(MinusEq(P.poly, other.poly), MapInsert(P.sin_cos_map, other.sin_cos_map))

\* TrigPoly::operator*=(const TrigPoly&)
TrigTimesEq(P, other) ==
    TrigPoly(TimesEq(P.poly, other.poly), MapInsert(P.sin_cos_map, other.sin_cos_map))

\* TrigPoly::operator*=(const CoefficientType&)
TrigTimesScalar(P, scalar) == TrigPoly(TimesScalar(P.poly, scalar), P.sin_cos_map)

\* TrigPoly::operator+=(const CoefficientType&)
TrigPlusScalar(P, scalar) == TrigPoly(PlusScalar(P.poly, scalar), P.sin_cos_map)

\* how a call that calls itself without end can go: each call takes a frame
\* until the stack has none left, or, where the build turns the call into a
\* jump, the call loops for ever.  In neither case does it return.
StackExhausted == "stack exhausted"

NeverReturns == "no return"

\* TrigPoly::operator-() const.  "TrigPoly ret = -(*this)" applies the same
\* operator to the same object: frames is the number of calls the stack
\* still has room for.
RECURSIVE TrigNegate(_, _)
TrigNegate(P, frames) ==
    IF frames = 0 THEN [errs |-> {StackExhausted, NeverReturns}, val |-> <<>>]
    ELSE LET ret == TrigNegate(P, frames - 1)
         IN  ret

\* friend operator-(const CoefficientType& scalar, const TrigPoly& p)
TrigScalarMinus(scalar, P) ==
    LET ret == TrigNegate(P, MaxFrames)
    IN  IF ret.errs # {} THEN ret
        ELSE [errs |-> {}, val |-> TrigPlusScalar(ret.val, scalar)]

SinDegree == "sin of polynomials with degree > 1 is not supported"

CosDegree == "cos of polynomials with degree > 1 is not supported"

Unmapped == "tried taking the sin of a variable that does not exist in my sin_cos_map"

PleaseImplementMe ==
    "Drake:TrigPoly:PleaseImplementMe.  need to handle this case (like I do in the matlab version"

\* "m[0]" where m has no element.  The vector of a polynomial without
\* monomials has no storage, so the read goes to the null address and the
\* process ends.
OutOfRange == "m[0] read outside the vector"

\* std::sin and std::cos of a coefficient.  Coefficients are rationals here,
\* so only the argument 0 has its sine and cosine among them.
StdSin(x) == CASE x = Zero -> Zero

StdCos(x) == CASE x = Zero -> One

\* std::abs of a coefficient
StdAbs(x) == <<Abs(x[1]), x[2]>>

\* What a call of sin or cos can do: return val, when errs is empty, or
\* throw one of errs.  The operands of "sin(a) * cos(b) + cos(a) * sin(b)"
\* are evaluated in an order the language leaves open, so when several of
\* the four calls throw, any of their errors can be the one that is thrown.
Returned(val) == [errs |-> {}, val |-> val]

Thrown(errs) == [errs |-> errs, val |-> <<>>]

\* SinSingle comparing the coefficient with 1, not its magnitude
SinSingle_NoAbs(P) ==
    LET m == P.poly.monomials
        v == m[1].terms[1].var
    IN  IF m[1].terms = <<>>
        THEN Returned(TrigPoly(PolyScalar(StdSin(m[1].coefficient)), P.sin_cos_map))
        ELSE IF v \notin DOMAIN P.sin_cos_map THEN Thrown({Unmapped})
        ELSE IF m[1].coefficient # One THEN Thrown({PleaseImplementMe})
        ELSE Returned(TrigPoly(subs(P.poly, v, P.sin_cos_map[v].s), P.sin_cos_map))

\* SinSingle returning the polynomial without the SinCosMap of p
SinSingle_EmptyMap(P) ==
    LET m == P.poly.monomials
        v == m[1].terms[1].var
    IN  IF m[1].terms = <<>>
        THEN Returned(TrigPoly(PolyScalar(StdSin(m[1].coefficient)), EmptyMap))
        ELSE IF v \notin DOMAIN P.sin_cos_map THEN Thrown({Unmapped})
        ELSE IF StdAbs(m[1].coefficient) # One THEN Thrown({PleaseImplementMe})
        ELSE Returned(TrigPoly(subs(P.poly, v, P.sin_cos_map[v].s), EmptyMap))

\* sin of a TrigPoly of one monomial
SinSingle(P) ==
    LET m == P.poly.monomials
        v == m[1].terms[1].var
    IN  IF m[1].terms = <<>>
        THEN Returned(TrigPoly(PolyScalar(StdSin(m[1].coefficient)), P.sin_cos_map))
        ELSE IF v \notin DOMAIN P.sin_cos_map THEN Thrown({Unmapped})
        ELSE IF StdAbs(m[1].coefficient) # One THEN Thrown({PleaseImplementMe})
        ELSE Returned(TrigPoly(subs(P.poly, v, P.sin_cos_map[v].s), P.sin_cos_map))

\* CosSingle without the "ret *= -1" of a coefficient -1
CosSingle_NoFlip(P) ==
    LET m == P.poly.monomials
        v == m[1].terms[1].var
    IN  IF m[1].terms = <<>>
        THEN Returned(TrigPoly(PolyScalar(StdCos(m[1].coefficient)), P.sin_cos_map))
        ELSE IF v \notin DOMAIN P.sin_cos_map THEN Thrown({Unmapped})
        ELSE IF StdAbs(m[1].coefficient) # One THEN Thrown({PleaseImplementMe})
        ELSE Returned(TrigPoly(subs(P.poly, v, P.sin_cos_map[v].c), P.sin_cos_map))

\* cos of a TrigPoly of one monomial
CosSingle(P) ==
    LET m == P.poly.monomials
        v == m[1].terms[1].var
    IN  IF m[1].terms = <<>>
        THEN Returned(TrigPoly(PolyScalar(StdCos(m[1].coefficient)), P.sin_cos_map))
        ELSE IF v \notin DOMAIN P.sin_cos_map THEN Thrown({Unmapped})
        ELSE IF StdAbs(m[1].coefficient) # One THEN Thrown({PleaseImplementMe})
        ELSE LET ret == TrigPoly(subs(P.poly, v, P.sin_cos_map[v].c), P.sin_cos_map)
             IN  Returned(IF m[1].coefficient = MinusOne
                          THEN TrigTimesScalar(ret, MinusOne)
                          ELSE ret)

\* the first monomial of p as a TrigPoly of its own: a
FirstPart(P) ==
    TrigPoly(PolyTerms(P.poly.monomials[1].coefficient, P.poly.monomials[1].terms),
             P.sin_cos_map)

\* RestPart that leaves the first monomial in b
RestPart_KeepFirst(P) == TrigPoly(PolyRange(P.poly.monomials), P.sin_cos_map)

\* the other monomials of p as a TrigPoly: b
RestPart(P) == TrigPoly(PolyRange(Tail(P.poly.monomials)), P.sin_cos_map)

\* the arguments of the calls of sin and cos that sin(p) and cos(p) make
\* themselves: none when the degree check throws or p.poly has one monomial
RecursiveArguments(P) ==
    IF getDegree(P.poly) > 1 \/ Len(P.poly.monomials) = 1 THEN {}
    ELSE IF P.poly.monomials = <<>> THEN {}
    ELSE {FirstPart(P), RestPart(P)}

RECURSIVE sin(_), cos(_)

\* friend TrigPoly sin(const TrigPoly& p)
sin(P) ==
    IF getDegree(P.poly) > 1 THEN Thrown({SinDegree})
    ELSE IF Len(P.poly.monomials) = 1 THEN SinSingle(P)
    ELSE IF P.poly.monomials = <<>> THEN Thrown({OutOfRange})
    ELSE LET sa == sin(FirstPart(P))
             cb == cos(RestPart(P))
             ca == cos(FirstPart(P))
             sb == sin(RestPart(P))
             errs == sa.errs \cup cb.errs \cup ca.errs \cup sb.errs
         IN  IF errs # {} THEN Thrown(errs)
             ELSE Returned(TrigPlusEq(TrigTimesEq(sa.val, cb.val),
                                      TrigTimesEq(ca.val, sb.val)))

\* cos adding sin(a) * sin(b) where cos subtracts it
cos_PlusSign(P) ==
    IF getDegree(P.poly) > 1 THEN Thrown({CosDegree})
    ELSE IF Len(P.poly.monomials) = 1 THEN CosSingle(P)
    ELSE IF P.poly.monomials = <<>> THEN Thrown({OutOfRange})
    ELSE LET ca == cos(FirstPart(P))
             cb == cos(RestPart(P))
             sa == sin(FirstPart(P))
             sb == sin(RestPart(P))
             errs == ca.errs \cup cb.errs \cup sa.errs \cup sb.errs
         IN  IF errs # {} THEN Thrown(errs)
             ELSE Returned(TrigPlusEq(TrigTimesEq(ca.val, cb.val),
                                      TrigTimesEq(sa.val, sb.val)))

\* friend TrigPoly cos(const TrigPoly& p)
cos(P) ==
    IF getDegree(P.poly) > 1 THEN Thrown({CosDegree})
    ELSE IF Len(P.poly.monomials) = 1 THEN CosSingle(P)
    ELSE IF P.poly.monomials = <<>> THEN Thrown({OutOfRange})
    ELSE LET ca == cos(FirstPart(P))
             cb == cos(RestPart(P))
             sa == sin(FirstPart(P))
             sb == sin(RestPart(P))
             errs == ca.errs \cup cb.errs \cup sa.errs \cup sb.errs
         IN  IF errs # {} THEN Thrown(errs)
             ELSE Returned(TrigMinusEq(TrigTimesEq(ca.val, cb.val),
                                       TrigTimesEq(sa.val, sb.val)))


-----------------------------------------------------------------------------
(* The client: two Polynomial objects p and q, and the operations of the   *)
(* class applied to them.  last records the latest call: its name, the     *)
(* object it was called on, its argument, and what it returned or threw.   *)

X == UToInt(variableNameToId(<<"x">>, 1).val)

Y == UToInt(variableNameToId(<<"y">>, 1).val)

Scalars == {One, FromInt(2)}

IntegrationConstants == Scalars \cup {Zero}

Orders == {0, 1, 2}

TermMenu == {Term(X, 1), Term(Y, 1)}

TermLists == SeqsUpTo(TermMenu, MaxTerms)

Assignments == {(X :> FromInt(2)), (Y :> FromInt(2))}

\* x*y + y + x, from a vector of three monomials
XYPlusYPlusX ==
    PolyRange(<<Monomial(One, <<Term(X, 1), Term(Y, 1)>>),
                Monomial(One, <<Term(Y, 1)>>),
                Monomial(One, <<Term(X, 1)>>)>>)

Constructed ==
    {PolyScalar(c) : c \in Scalars}
    \cup {PolyTerms(One, ts) : ts \in TermLists}
    \cup {PolyName(nm, 1).val : nm \in {<<"x">>, <<"y">>}}
    \cup {PolyVar(c, v) : c \in Scalars, v \in {X, Y}}
    \cup {PolyRange(<<>>), XYPlusYPlusX}

Call(op, this, arg, out, err) ==
    [op |-> op, this |-> this, arg |-> arg, out |-> out, err |-> err]

\* a call that returns a new value for p
Returns(op, this, arg, out) ==
    /\ p' = out
    /\ last' = Call(op, this, arg, out, "none")

\* a call that throws: no object changes
Throws(op, this, arg, err) ==
    /\ p' = p
    /\ last' = Call(op, this, arg, <<>>, err)

Step ==
    /\ steps < MaxSteps
    /\ steps' = steps + 1
    /\ UNCHANGED nameVars
    /\ UNCHANGED trigVars

\* the operands of a binary operator: p op q, q op p, p op p
Operands == {<<p, q>>, <<q, p>>, <<p, p>>}

\* p = p + q, and so on
Plus ==
    /\ Step /\ q' = q
    /\ \E ab \in Operands : Returns("+", ab[1], ab[2], PlusEq(ab[1], ab[2]))

Minus ==
    /\ Step /\ q' = q
    /\ \E ab \in Operands : Returns("-", ab[1], ab[2], MinusEq(ab[1], ab[2]))

Times ==
    /\ Step /\ q' = q
    /\ \E ab \in Operands : Returns("*", ab[1], ab[2], TimesEq(ab[1], ab[2]))

\* q = p
Save ==
    /\ Step /\ q' = p /\ p' = p
    /\ last' = Call("copy", p, <<>>, p, "none")

AddScalar ==
    /\ Step /\ q' = q
    /\ \E c \in Scalars : Returns("+scalar", p, c, PlusScalar(p, c))

SubScalar ==
    /\ Step /\ q' = q
    /\ \E c \in Scalars : Returns("-scalar", p, c, MinusScalar(p, c))

MulScalar ==
    /\ Step /\ q' = q
    /\ \E c \in Scalars : Returns("*scalar", p, c, TimesScalar(p, c))

DivideScalar ==
    /\ Step /\ q' = q
    /\ \E c \in Scalars : Returns("/scalar", p, c, DivScalar(p, c))

Negation ==
    /\ Step /\ q' = q
    /\ Returns("negate", p, <<>>, Negate(p))

Substitute ==
    /\ Step /\ q' = q
    /\ \E ov \in {<<X, Y>>, <<Y, X>>} : Returns("subs", p, ov, subs(p, ov[1], ov[2]))

EvaluatePartial ==
    /\ Step /\ q' = q
    /\ \E a \in Assignments : Returns("evaluatePartial", p, a, evaluatePartial(p, a))

Derivative ==
    /\ Step /\ q' = q
    /\ \E n \in Orders :
         LET r == derivative(p, n)
         IN  IF r.err = "none" THEN Returns("derivative", p, n, r.val)
             ELSE Throws("derivative", p, n, r.err)

Integral ==
    /\ Step /\ q' = q
    /\ \E c \in IntegrationConstants :
         LET r == integral(p, c)
         IN  IF r.err = "none" THEN Returns("integral", p, c, r.val)
             ELSE Throws("integral", p, c, r.err)

GetCoefficients ==
    /\ Step /\ q' = q /\ p' = p
    /\ LET r == getCoefficients(p)
       IN  last' = Call("getCoefficients", p, <<>>, r.val, r.err)

Roots ==
    /\ Step /\ q' = q /\ p' = p
    /\ LET r == roots(p)
       IN  last' = Call("roots", p, <<>>, r.val, r.err)

PolyInit ==
    /\ p \in Constructed
    /\ q \in Constructed
    /\ last = Call("construct", p, <<>>, p, "none")
    /\ steps = 0

NameIdle ==
    /\ name = <<>>
    /\ idx = 0
    /\ id = U(0)
    /\ text = <<>>
    /\ nerr = "none"
    /\ npc = "idle"
    /\ probe = Probe(<<>>, 0, U(0), "none")
    /\ null_offset = U(0)

\* no TrigPoly in use
TrigIdle ==
    /\ tp = TrigPolyScalar(Zero)
    /\ tq = TrigPolyScalar(Zero)
    /\ tlast = Call("construct", tp, <<>>, tp, "none")
    /\ tsteps = MaxSteps

Init == PolyInit /\ NameIdle /\ TrigIdle

Next ==
    \/ Plus
    \/ Minus
    \/ Times
    \/ Save
    \/ AddScalar
    \/ SubScalar
    \/ MulScalar
    \/ DivideScalar
    \/ Negation
    \/ Substitute
    \/ EvaluatePartial
    \/ Derivative
    \/ Integral
    \/ GetCoefficients
    \/ Roots

Spec == Init /\ [][Next]_vars


-----------------------------------------------------------------------------
(* The naming client: a name and an index are encoded by variableNameToId  *)
(* and the identifier is decoded again by idToVariableName.                *)

NameAlphabet == {"@", "x", "z"}

\* names with a character that is not in kNameChars
InvalidNames == {<<"$">>, <<"x", "$">>}

\* names of more than kNameLength characters: the smallest of 5, the largest
\* of 6, one of 7 whose name part passes 2^32 and one of 7 whose name part
\* is twice 2^32
LongNames ==
    {<<"@", "@", "@", "@", "@">>,
     <<"z", "z", "z", "z", "z", "z">>,
     <<".", "v", "@", "@", "@", "@", "@">>,
     <<"e", "q", "@", "d", "x", "m", "d">>}

Names == (SeqsUpTo(NameAlphabet, MaxNameLen) \ {<<>>}) \cup InvalidNames \cup LongNames

\* what (VarType)(NULL - kNameChars) can be: 2^32 minus the low 32 bits of
\* the address of kNameChars, here for an address ending in 0x004a2040 and
\* for one ending in 0xffffffe0
NullOffsets == {<<65461, 57280>>, U(32)}

Indices == {0, 1, 2, MaxId, MaxId + 1}

\* the indices the named-variable constructor is tried with: their
\* identifiers are below 2^31
ConstructIndices == {0, 1, 2}

\* a second name and index, encoded alongside the first
ProbeNames == SeqsUpTo({"@", "z"}, kNameLength) \ {<<>>}

ProbeIndices == {1, MaxId}

Encode ==
    /\ npc = "start"
    /\ LET r == variableNameToId(name, idx)
           r2 == variableNameToId(probe.name, probe.idx)
       IN  /\ id' = r.val
           /\ nerr' = r.err
           /\ npc' = IF r.err = "none" THEN "encoded" ELSE "failed"
           /\ probe' = Probe(probe.name, probe.idx, r2.val, r2.err)
    /\ UNCHANGED <<name, idx, text, null_offset>>
    /\ UNCHANGED polyVars
    /\ UNCHANGED trigVars

Decode ==
    /\ npc = "encoded"
    /\ text' = idToVariableName(id)
    /\ npc' = "decoded"
    /\ UNCHANGED <<name, idx, id, nerr, probe, null_offset>>
    /\ UNCHANGED polyVars
    /\ UNCHANGED trigVars

\* p = Polynomial(name, num), for the first indices
ConstructNamed ==
    /\ npc = "start"
    /\ idx \in ConstructIndices
    /\ LET r == PolyName(name, idx)
       IN  /\ nerr' = r.err
           /\ npc' = IF r.err = "none" THEN "constructed" ELSE "failed"
           /\ p' = IF r.err = "none" THEN r.val ELSE p
           /\ last' = Call("construct", p, <<name, idx>>, r.val, r.err)
    /\ UNCHANGED <<q, steps>>
    /\ UNCHANGED <<name, idx, id, text, probe, null_offset>>
    /\ UNCHANGED trigVars

NameInit ==
    /\ name \in Names
    /\ idx \in Indices
    /\ id = U(0)
    /\ text = <<>>
    /\ nerr = "none"
    /\ npc = "start"
    /\ \E n2 \in ProbeNames, m2 \in ProbeIndices : probe = Probe(n2, m2, U(0), "none")
    \* only a name with a character outside kNameChars reads null_offset
    /\ null_offset \in IF isValidVariableName(name) THEN {U(32)} ELSE NullOffsets

PolyIdle ==
    /\ p = PolyRange(<<>>)
    /\ q = PolyRange(<<>>)
    /\ last = Call("construct", p, <<>>, p, "none")
    /\ steps = MaxSteps

InitName == PolyIdle /\ NameInit /\ TrigIdle

NextName == Encode \/ Decode \/ ConstructNamed

SpecName == InitName /\ [][NextName]_vars


-----------------------------------------------------------------------------
(* The TrigPoly client: two TrigPoly objects tp and tq, and the operations   *)
(* of the class applied to them; tlast records the latest call.            *)

\* the variables of the class comment's example: "s" and "c" name s1 and c1
s1 == UToInt(variableNameToId(<<"s">>, 1).val)

c1 == UToInt(variableNameToId(<<"c">>, 1).val)

s2 == UToInt(variableNameToId(<<"s">>, 2).val)

c2 == UToInt(variableNameToId(<<"c">>, 2).val)

W == UToInt(variableNameToId(<<"w">>, 1).val)

Z == UToInt(variableNameToId(<<"z">>, 1).val)

\* TrigPoly x(base_x, s, c)
TrigX == TrigPolySinCos(PolyVar(One, X), PolyVar(One, s1), PolyVar(One, c1)).val

TrigY == TrigPolySinCos(PolyVar(One, Y), PolyVar(One, s2), PolyVar(One, c2)).val

\* x again, with other placeholders for its sine and cosine
TrigXOther == TrigPolySinCos(PolyVar(One, X), PolyVar(One, s2), PolyVar(One, c2)).val

\* a map with entries for x, y and w
FullMap ==
    (X :> SinCosVars(s1, c1)) @@ (Y :> SinCosVars(s2, c2)) @@ (W :> SinCosVars(s2, c1))

\* x*y*x + x, its first monomial with the term list [x, y, x]
RepeatedVariable ==
    PolyRange(<<Monomial(One, <<Term(X, 1), Term(Y, 1), Term(X, 1)>>),
                Monomial(One, <<Term(X, 1)>>)>>)

\* (x + 2y + w - z).subs(z, y): the monomials x, 2y, w, -y
SubstitutedSum ==
    subs(PolyRange(<<Monomial(One, <<Term(X, 1)>>), Monomial(FromInt(2), <<Term(Y, 1)>>),
                     Monomial(One, <<Term(W, 1)>>), Monomial(MinusOne, <<Term(Z, 1)>>)>>),
         Z, Y)

TrigConstructed ==
    {TrigX, TrigY, TrigXOther,
     TrigPolyDefault,
     TrigPolyScalar(Zero),
     TrigPoly(PolyVar(One, Y), EmptyMap),
     TrigPoly(PolyTerms(One, <<Term(X, 1), Term(Y, 1)>>), TrigX.sin_cos_map),
     TrigPoly(PlusEq(PolyVar(FromInt(2), X), PolyVar(One, Y)), FullMap),
     TrigPoly(RepeatedVariable, FullMap),
     TrigPoly(SubstitutedSum, FullMap)}

\* the arguments the three-polynomial constructor is tried with
QArgs ==
    {PolyVar(One, X), PolyVar(One, Y), PlusScalar(PolyVar(One, X), One),
     PolyScalar(One), TimesEq(PolyVar(One, X), PolyVar(One, X))}

SArgs == {PolyVar(One, s1), PolyVar(One, s2), PlusEq(PolyVar(One, s1), PolyVar(One, s2))}

CArgs == {PolyVar(One, c1), PolyVar(One, c2), PolyTerms(One, <<Term(c1, 1), Term(s1, 1)>>)}

\* every q with the placeholders of the example, and x with every s and c
SinCosArguments ==
    {<<Q, PolyVar(One, s1), PolyVar(One, c1)>> : Q \in QArgs}
    \cup {<<PolyVar(One, X), S, C>> : S \in SArgs, C \in CArgs}

TrigScalars == {FromInt(2), MinusOne}

TrigStep ==
    /\ tsteps < MaxSteps
    /\ tsteps' = tsteps + 1
    /\ UNCHANGED polyVars
    /\ UNCHANGED nameVars

\* a call that returns a new value for tp
TrigReturns(op, this, arg, out) ==
    /\ tp' = out
    /\ tlast' = Call(op, this, arg, out, "none")

\* a call that throws: no object changes
TrigThrows(op, this, arg, err) ==
    /\ tp' = tp
    /\ tlast' = Call(op, this, arg, <<>>, err)

\* tp = TrigPoly(q, s, c)
ConstructSinCos ==
    /\ TrigStep /\ tq' = tq
    /\ \E qsc \in SinCosArguments :
         LET r == TrigPolySinCos(qsc[1], qsc[2], qsc[3])
         IN  IF r.err = "none" THEN TrigReturns("TrigPoly", tp, qsc, r.val)
             ELSE TrigThrows("TrigPoly", tp, qsc, r.err)

TrigOperands == {<<tp, tq>>, <<tq, tp>>, <<tp, tp>>}

\* tp = tp + tq, and so on
TrigPlus ==
    /\ TrigStep /\ tq' = tq
    /\ \E ab \in TrigOperands : TrigReturns("+", ab[1], ab[2], TrigPlusEq(ab[1], ab[2]))

TrigMinus ==
    /\ TrigStep /\ tq' = tq
    /\ \E ab \in TrigOperands : TrigReturns("-", ab[1], ab[2], TrigMinusEq(ab[1], ab[2]))

TrigTimes ==
    /\ TrigStep /\ tq' = tq
    /\ \E ab \in TrigOperands : TrigReturns("*", ab[1], ab[2], TrigTimesEq(ab[1], ab[2]))

TrigScale ==
    /\ TrigStep /\ tq' = tq
    /\ \E c \in TrigScalars : TrigReturns("*scalar", tp, c, TrigTimesScalar(tp, c))

\* a call that does not return: the process ends
TrigEnds(op, this, arg, err) ==
    /\ tsteps < MaxSteps
    /\ tsteps' = MaxSteps
    /\ tp' = tp /\ tq' = tq
    /\ tlast' = Call(op, this, arg, <<>>, err)
    /\ UNCHANGED polyVars
    /\ UNCHANGED nameVars

\* tp = -tp
TrigNegation ==
    LET r == TrigNegate(tp, MaxFrames)
    IN  IF r.errs = {} THEN TrigStep /\ tq' = tq /\ TrigReturns("negate", tp, <<>>, r.val)
        ELSE \E e \in r.errs : TrigEnds("negate", tp, <<>>, e)

\* tp = scalar - tp
TrigMinusFromScalar ==
    \E c \in TrigScalars :
        LET r == TrigScalarMinus(c, tp)
        IN  IF r.errs = {} THEN TrigStep /\ tq' = tq /\ TrigReturns("scalar-", tp, c, r.val)
            ELSE \E e \in r.errs : TrigEnds("scalar-", tp, c, e)

\* sin and cos are called on a TrigPoly whose constant monomials are 0
TrigArgument(P) ==
    \A k \in DOMAIN P.poly.monomials :
        P.poly.monomials[k].terms = <<>> => P.poly.monomials[k].coefficient = Zero

\* tp = sin(tp)
Sin ==
    /\ TrigArgument(tp)
    /\ LET r == sin(tp)
       IN  IF r.errs = {} THEN TrigStep /\ tq' = tq /\ TrigReturns("sin", tp, <<>>, r.val)
           ELSE \E e \in r.errs :
                  IF e = OutOfRange THEN TrigEnds("sin", tp, <<>>, e)
                  ELSE TrigStep /\ tq' = tq /\ TrigThrows("sin", tp, <<>>, e)

\* tp = cos(tp)
Cos ==
    /\ TrigArgument(tp)
    /\ LET r == cos(tp)
       IN  IF r.errs = {} THEN TrigStep /\ tq' = tq /\ TrigReturns("cos", tp, <<>>, r.val)
           ELSE \E e \in r.errs :
                  IF e = OutOfRange THEN TrigEnds("cos", tp, <<>>, e)
                  ELSE TrigStep /\ tq' = tq /\ TrigThrows("cos", tp, <<>>, e)

TrigInit ==
    /\ tp \in TrigConstructed
    /\ tq \in TrigConstructed
    /\ tlast = Call("construct", tp, <<>>, tp, "none")
    /\ tsteps = 0

InitTrig == PolyIdle /\ NameIdle /\ TrigInit

NextTrig ==
    \/ ConstructSinCos
    \/ TrigPlus
    \/ TrigMinus
    \/ TrigTimes
    \/ TrigScale
    \/ TrigNegation
    \/ TrigMinusFromScalar
    \/ Sin
    \/ Cos

SpecTrig == InitTrig /\ [][NextTrig]_vars


-----------------------------------------------------------------------------
(* The monomial client: p holds a Monomial m and q a Monomial d, and m is   *)
(* divided by d: m = m.factor(d).                                           *)

FactorCoefficients == {FromInt(2), MinusOne}

FactorPowers == {1, 2}

FactorTerm == {Term(v, pw) : v \in {X, Y}, pw \in FactorPowers}

FactorMonomials ==
    {Monomial(c, ts) : c \in FactorCoefficients, ts \in SeqsUpTo(FactorTerm, MaxTerms)}

\* p = p.factor(q)
Factor ==
    /\ Step /\ q' = q
    /\ p.coefficient # Zero
    /\ Returns("factor", p, q, factor(p, q))

FactorInit ==
    /\ p \in FactorMonomials
    /\ q \in FactorMonomials
    /\ last = Call("construct", p, <<>>, p, "none")
    /\ steps = 0

InitFactor == FactorInit /\ NameIdle /\ TrigIdle

NextFactor == Factor

SpecFactor == InitFactor /\ [][NextFactor]_vars


-----------------------------------------------------------------------------
(* Vocabulary of the properties *)

Monomials(P) == Range(P.monomials)

VariablesOf(m) == {m.terms[l].var : l \in DOMAIN m.terms}

\* the set of (variable, power) terms of a monomial
TermSet(m) == Range(m.terms)

RECURSIVE PowerOf(_, _, _)
PowerOf(ts, v, k) ==
    IF k > Len(ts) THEN 0
    ELSE (IF ts[k].var = v THEN ts[k].power ELSE 0) + PowerOf(ts, v, k + 1)

\* the exponent vector a monomial denotes: each variable's total power
ExponentVector(m) == [v \in VariablesOf(m) |-> PowerOf(m.terms, v, 1)]

RECURSIVE TotalFrom(_, _, _)
TotalFrom(ms, e, k) ==
    IF k > Len(ms) THEN Zero
    ELSE RAdd(IF ExponentVector(ms[k]) = e THEN ms[k].coefficient ELSE Zero,
              TotalFrom(ms, e, k + 1))

\* the total of the coefficients P carries on exponent vector e
Total(P, e) == TotalFrom(P.monomials, e, 1)

ExponentVectors(P) == {ExponentVector(m) : m \in Monomials(P)}

NoDuplicateMonomials(P) ==
    \A i, j \in DOMAIN P.monomials :
        i < j => TermSet(P.monomials[i]) # TermSet(P.monomials[j])

DistinctVariables(m) ==
    \A i, j \in DOMAIN m.terms : i < j => m.terms[i].var # m.terms[j].var

\* univariate as the glossary has it: every non-constant monomial has
\* exactly one term and all those terms use the same variable
TrulyUnivariate(P) ==
    /\ \A m \in Monomials(P) : Len(m.terms) <= 1
    /\ Cardinality(getVariables(P)) <= 1

HasConstant(P) == \E m \in Monomials(P) : m.terms = <<>>

HasTerm(P) == \E m \in Monomials(P) : m.terms # <<>>

ConstantOnly(P) == HasConstant(P) /\ ~HasTerm(P)

RECURSIVE Trim(_)
Trim(v) ==
    IF v # <<>> /\ v[Len(v)] = Zero THEN Trim(SubSeq(v, 1, Len(v) - 1)) ELSE v

RECURSIVE ConvolutionAt(_, _, _, _)
ConvolutionAt(a, b, k, i) ==
    IF i > Len(a) THEN Zero
    ELSE RAdd(IF k - i + 1 \in DOMAIN b THEN RMul(a[i], b[k - i + 1]) ELSE Zero,
              ConvolutionAt(a, b, k, i + 1))

\* the coefficient vector of the product of the polynomials a and b denote
Convolution(a, b) == [k \in 1..(Len(a) + Len(b) - 1) |-> ConvolutionAt(a, b, k, 1)]


XMinusOne == MinusScalar(PolyName(<<"x">>, 1).val, One)


-----------------------------------------------------------------------------
(* Properties *)

\* C1: after a polynomial +, - or *, no two monomials of the result have the
\* same set of (variable, power) terms.
C1_NoDuplicateMonomials ==
    last.op \in {"+", "-", "*"} => NoDuplicateMonomials(p)

\* C2: for univariate P and Q in the same variable (each without duplicate
\* monomials), P * Q is univariate and getCoefficients(P * Q) is the
\* convolution of getCoefficients(P) and getCoefficients(Q) (vectors compared
\* up to trailing zeros); in particular (x - 1) * (x - 1) has the
\* coefficients [1, -2, 1].
C2_ProductCoefficients ==
    (/\ last.op = "*"
     /\ last.this.is_univariate /\ TrulyUnivariate(last.this)
     /\ last.arg.is_univariate /\ TrulyUnivariate(last.arg)
     /\ NoDuplicateMonomials(last.this) /\ NoDuplicateMonomials(last.arg)
     /\ Cardinality(getVariables(last.this) \cup getVariables(last.arg)) <= 1)
    => /\ p.is_univariate
       /\ Trim(getCoefficients(p).val)
            = Trim(Convolution(getCoefficients(last.this).val,
                               getCoefficients(last.arg).val))
       /\ (last.this = XMinusOne /\ last.arg = XMinusOne)
            => getCoefficients(p).val = <<One, FromInt(-2), One>>

\* C3: for every exponent vector, the coefficients P + Q (P - Q) carries on
\* it total the total of P plus (minus) the total of Q.
C3_SumAndDifference ==
    last.op \in {"+", "-"} =>
        \A e \in ExponentVectors(p) \cup ExponentVectors(last.this)
                   \cup ExponentVectors(last.arg) :
            Total(p, e) = IF last.op = "+"
                          THEN RAdd(Total(last.this, e), Total(last.arg, e))
                          ELSE RSub(Total(last.this, e), Total(last.arg, e))


\* C4 as claimed: for every polynomial P flagged univariate, constants
\* included, P.integral(c).derivative(1) succeeds and has the coefficient
\* vector of P.
C4_RoundTripEveryUnivariate ==
    (last.op = "integral" /\ last.this.is_univariate) =>
        /\ last.err = "none"
        /\ LET d == derivative(p, 1)
           IN  /\ d.err = "none"
               /\ isApprox(d.val, last.this) = [err |-> "none", val |-> TRUE]

\* C4 as amended: the round trip holds for every polynomial flagged
\* univariate that is not only a constant (it has a monomial with a term, or
\* no constant monomial); for a polynomial that is only a constant, integral
\* throws the unknown-variable error.
C4_RoundTrip ==
    (last.op = "integral" /\ last.this.is_univariate) =>
        IF ConstantOnly(last.this)
        THEN last.err = UnknownVariable /\ p = last.this
        ELSE /\ last.err = "none"
             /\ LET d == derivative(p, 1)
                IN  /\ d.err = "none"
                    /\ isApprox(d.val, last.this) = [err |-> "none", val |-> TRUE]

\* integral has returned for a polynomial with a constant monomial and a
\* monomial of power 2, and the derivative of the result has P's coefficients
C4_Witness ==
    /\ last.op = "integral" /\ last.err = "none"
    /\ HasConstant(last.this)
    /\ \E m \in Monomials(last.this) : m.terms # <<>> /\ m.terms[1].power = 2
    /\ isApprox(derivative(p, 1).val, last.this).val

\* C5: for every polynomial P flagged univariate, (P + P) - P has the
\* coefficient vector of P.
C5_AddThenSubtractSelf ==
    (last.op = "+" /\ last.this = last.arg /\ last.this.is_univariate) =>
        isApprox(MinusEq(p, last.this), last.this) = [err |-> "none", val |-> TRUE]

\* C6: a polynomial whose is_univariate flag is true has non-constant
\* monomials of exactly one term each, all in the same variable.
C6_FlagImpliesUnivariate ==
    /\ p.is_univariate => TrulyUnivariate(p)
    /\ q.is_univariate => TrulyUnivariate(q)

\* C7: every monomial of a polynomial built by the coefficient+term-list
\* constructor or produced by operator*= has pairwise-distinct variables.
C7_DistinctVariables ==
    last.op \in {"construct", "*"} => \A m \in Monomials(p) : DistinctVariables(m)

\* C8: getCoefficients, derivative, integral and roots throw the "only
\* defined for univariate polynomials" error and leave the polynomial
\* unchanged when is_univariate is false, and never throw that error when
\* it is true.
C8_UnivariateGuard ==
    last.op \in {"getCoefficients", "derivative", "integral", "roots"} =>
        IF last.this.is_univariate
        THEN last.err # NotUnivariate
        ELSE last.err = NotUnivariate /\ p = last.this

\* derivative has thrown on a polynomial of two variables
C8_Witness ==
    /\ last.op = "derivative" /\ last.err = NotUnivariate
    /\ Cardinality(getVariables(last.this)) = 2
    /\ p = last.this

\* the result of integral for the monomials of P: every constant monomial c
\* became c times the variable v to the power 1
ConstantsAttached(P, R, v) ==
    /\ Len(R.monomials) = Len(P.monomials) + 1
    /\ \A k \in DOMAIN P.monomials :
         P.monomials[k].terms = <<>> =>
             R.monomials[k] = Monomial(P.monomials[k].coefficient, <<Term(v, 1)>>)

\* C9 as claimed: integral throws the unknown-variable error exactly when
\* the polynomial has a constant monomial and no monomial with a term; for a
\* univariate polynomial with a non-constant monomial it throws nothing and
\* every constant monomial c becomes c times the variable to the power 1.
C9_UnknownVariableExactly ==
    \A c \in IntegrationConstants :
        LET r == integral(p, c)
        IN  /\ (r.err = UnknownVariable) <=> ConstantOnly(p)
            /\ (p.is_univariate /\ HasTerm(p)) =>
                   /\ r.err = "none"
                   /\ \A v \in getVariables(p) : ConstantsAttached(p, r.val, v)

\* C9 as amended: integral throws the unknown-variable error exactly when
\* is_univariate is true and the polynomial has a constant monomial and no
\* monomial with a term; the rest as claimed.
C9_UnknownVariable ==
    \A c \in IntegrationConstants :
        LET r == integral(p, c)
        IN  /\ (r.err = UnknownVariable) <=> (p.is_univariate /\ ConstantOnly(p))
            /\ (p.is_univariate /\ HasTerm(p)) =>
                   /\ r.err = "none"
                   /\ \A v \in getVariables(p) : ConstantsAttached(p, r.val, v)

\* integral has returned for a polynomial with a constant monomial and a
\* non-constant one, and the constant now carries the variable
C9_Witness ==
    /\ last.op = "integral" /\ last.err = "none"
    /\ HasConstant(last.this) /\ HasTerm(last.this)
    /\ \E v \in getVariables(last.this) : ConstantsAttached(last.this, p, v)


\* the names and indices C10 speaks of
ValidPair(nm, m) ==
    /\ isValidVariableName(nm) /\ Len(nm) <= kNameLength
    /\ 1 <= m /\ m <= MaxId

\* C10: for a name of 1 to 4 alphabet characters and an index m with
\* 1 <= m <= MaxId, variableNameToId succeeds, idToVariableName of its result
\* is the name followed by the decimal digits of m, and a different
\* (name, m) pair receives a different identifier.
C10_NameRoundTrip ==
    ValidPair(name, idx) =>
        /\ npc # "failed"
        /\ npc = "decoded" => text = name \o to_string(idx)
        /\ (/\ npc \in {"encoded", "decoded"}
            /\ ValidPair(probe.name, probe.idx)
            /\ <<probe.name, probe.idx>> # <<name, idx>>)
           => probe.err = "none" /\ probe.id # id

\* a four-character name with the largest index has been encoded and decoded
C10_Witness ==
    /\ npc = "decoded"
    /\ Len(name) = kNameLength /\ idx = MaxId
    /\ text = name \o to_string(MaxId)
    /\ probe.name # name /\ probe.idx = MaxId /\ Len(probe.name) = kNameLength


\* C11: encoding a name with a character outside the alphabet, through
\* variableNameToId or through the named-variable constructor, fails and
\* yields no identifier and no polynomial.
C11_InvalidNameRejected ==
    (~isValidVariableName(name) /\ npc # "start") =>
        /\ npc = "failed"
        /\ nerr # "none"
        /\ id = U(0)
        /\ p = PolyRange(<<>>)

\* the integer a name of alphabet characters denotes in base
\* kNumNameChars + 1, each character counting as its offset plus one
RECURSIVE NameValue(_)
NameValue(nm) ==
    IF nm = <<>> THEN 0
    ELSE NameValue(SubSeq(nm, 1, Len(nm) - 1)) * (kNumNameChars + 1)
           + CharOffset(nm[Len(nm)]) + 1

\* C12: variableNameToId fails for every index m < 1 and every m > MaxId,
\* and for an accepted m with a name of 1 to 4 alphabet characters the
\* identifier is 2 * (name_part + kMaxNamePart * (m - 1)) without wrapping:
\* it is even, and halving it gives back m - 1 and the name part.
C12_IndexRange ==
    npc # "start" =>
        /\ (idx < 1 \/ idx > MaxId) => npc = "failed"
        /\ (/\ npc \in {"encoded", "decoded"}
            /\ isValidVariableName(name) /\ Len(name) <= kNameLength) =>
               /\ 1 <= idx /\ idx <= MaxId
               /\ id[2] % 2 = 0
               /\ id[1] < HalfWord /\ id[2] < HalfWord
               /\ UHalf(id) \div kMaxNamePart = idx - 1
               /\ UHalf(id) % kMaxNamePart = NameValue(name)

\* the largest name of four characters has been encoded with the largest
\* index
C12_Witness ==
    /\ npc = "encoded"
    /\ name = <<"z", "z", "z", "z">> /\ idx = MaxId
    /\ UHalf(id) = NameValue(name) + kMaxNamePart * (MaxId - 1)

\* the variables of the polynomial of a TrigPoly that have no entry in its
\* SinCosMap
UnmappedVariables(P) == getVariables(P.poly) \ DOMAIN P.sin_cos_map

\* every non-constant monomial has the coefficient 1 or -1
UnitCoefficients(P) ==
    \A m \in Monomials(P) : m.terms # <<>> => StdAbs(m.coefficient) = One

\* C13: sin(p) and cos(p) throw the unmapped-variable error when p.poly has
\* a variable without an entry in p's SinCosMap, whatever monomial or term
\* position the variable has (p.poly of degree at most 1 and with unit
\* coefficients, so that no other check of sin and cos applies).
C13_UnmappedVariable ==
    (/\ tlast.op \in {"sin", "cos"}
     /\ UnmappedVariables(tlast.this) # {}
     /\ getDegree(tlast.this.poly) <= 1
     /\ UnitCoefficients(tlast.this.poly))
    => tlast.err = Unmapped

\* C14: sin(p) and cos(p) throw the unsupported-degree error when the degree
\* of p.poly exceeds 1, whatever the SinCosMap and the coefficients, and
\* never throw it when the degree is 0 or 1.
C14_DegreeError ==
    tlast.op \in {"sin", "cos"} =>
        IF getDegree(tlast.this.poly) > 1
        THEN tlast.err = (IF tlast.op = "sin" THEN SinDegree ELSE CosDegree)
        ELSE tlast.err \notin {SinDegree, CosDegree}

\* a TrigPoly of the single monomial k*v, v with an entry in the map
SingleLinear(P) ==
    /\ Len(P.poly.monomials) = 1
    /\ Len(P.poly.monomials[1].terms) = 1
    /\ P.poly.monomials[1].terms[1].power = 1
    /\ P.poly.monomials[1].terms[1].var \in DOMAIN P.sin_cos_map

\* C15 as claimed: for a single linear monomial k*v with v in the map, sin
\* and cos throw the unsupported-coefficient error if and only if |k| # 1;
\* for a sum, the call throws whenever a non-constant monomial has a
\* coefficient of magnitude other than 1.
C15_CoefficientErrorAnySum ==
    tlast.op \in {"sin", "cos"} =>
        /\ SingleLinear(tlast.this) =>
               ((tlast.err = PleaseImplementMe)
                  <=> ~UnitCoefficients(tlast.this.poly))
        /\ (Len(tlast.this.poly.monomials) > 1 /\ ~UnitCoefficients(tlast.this.poly))
               => tlast.err # "none"

\* no monomial is merged into another by makeMonomialsUnique, wherever the
\* two stand: no two monomials have the same terms, and no monomial names a
\* variable twice
NoLikeMonomials(P) ==
    /\ NoDuplicateMonomials(P)
    /\ \A m \in Monomials(P) : DistinctVariables(m)

\* C15 as amended: the second part holds for a sum without like monomials.
C15_CoefficientError ==
    tlast.op \in {"sin", "cos"} =>
        /\ SingleLinear(tlast.this) =>
               ((tlast.err = PleaseImplementMe)
                  <=> ~UnitCoefficients(tlast.this.poly))
        /\ (/\ Len(tlast.this.poly.monomials) > 1
            /\ NoLikeMonomials(tlast.this.poly)
            /\ ~UnitCoefficients(tlast.this.poly))
               => tlast.err # "none"

\* sin has thrown the coefficient error for a sum of two unlike monomials
C15_Witness ==
    /\ tlast.op = "sin" /\ tlast.err = PleaseImplementMe
    /\ Len(tlast.this.poly.monomials) = 2
    /\ NoLikeMonomials(tlast.this.poly)
    /\ UnmappedVariables(tlast.this) = {}

\* C16: for the TrigPoly x built from q = x, s = s1, c = c1, sin(x) is the
\* single monomial 1*s1, and cos(x + x) throws nothing and is the polynomial
\* of the two monomials 1*c1^2 and (-1)*s1^2.
C16_SinAndCosOfSum ==
    /\ (tlast.op = "sin" /\ tlast.this = TrigX) =>
           /\ tlast.err = "none"
           /\ tlast.out.poly.monomials = <<Monomial(One, <<Term(s1, 1)>>)>>
    /\ (tlast.op = "cos" /\ tlast.this = TrigPlusEq(TrigX, TrigX)) =>
           /\ tlast.err = "none"
           /\ tlast.out.poly.monomials
                = <<Monomial(One, <<Term(c1, 2)>>), Monomial(MinusOne, <<Term(s1, 2)>>)>>

\* cos has returned for x + x
C16_Witness ==
    /\ tlast.op = "cos" /\ tlast.err = "none"
    /\ tlast.this.poly.monomials
         = <<Monomial(One, <<Term(X, 1)>>), Monomial(One, <<Term(X, 1)>>)>>
    /\ tlast.this.sin_cos_map = (X :> SinCosVars(s1, c1))
    /\ tp = tlast.out

\* the keys both operands of the latest operation have, with different
\* entries
Conflicts == {k \in DOMAIN tlast.this.sin_cos_map \cap DOMAIN tlast.arg.sin_cos_map :
                tlast.this.sin_cos_map[k] # tlast.arg.sin_cos_map[k]}

\* C17 as claimed: after a op= b (op one of +, -, *) the keys of the
\* SinCosMap are the keys of a and of b, and a key both have with different
\* entries has the entry of b.
C17_RightOperandWins ==
    tlast.op \in {"+", "-", "*"} =>
        /\ DOMAIN tlast.out.sin_cos_map
             = DOMAIN tlast.this.sin_cos_map \cup DOMAIN tlast.arg.sin_cos_map
        /\ \A k \in Conflicts : tlast.out.sin_cos_map[k] = tlast.arg.sin_cos_map[k]

\* C17 as amended: a key both operands have keeps the entry of a, the
\* left-hand operand; every other key has the entry of the operand it is in.
C17_MapUnion ==
    tlast.op \in {"+", "-", "*"} =>
        /\ DOMAIN tlast.out.sin_cos_map
             = DOMAIN tlast.this.sin_cos_map \cup DOMAIN tlast.arg.sin_cos_map
        /\ \A k \in DOMAIN tlast.this.sin_cos_map :
               tlast.out.sin_cos_map[k] = tlast.this.sin_cos_map[k]
        /\ \A k \in DOMAIN tlast.arg.sin_cos_map \ DOMAIN tlast.this.sin_cos_map :
               tlast.out.sin_cos_map[k] = tlast.arg.sin_cos_map[k]

\* two operands with different entries for x have been multiplied, the
\* right-hand one bringing a key of its own
C17_Witness ==
    /\ tlast.op = "*"
    /\ Conflicts # {}
    /\ DOMAIN tlast.arg.sin_cos_map \ DOMAIN tlast.this.sin_cos_map # {}
    /\ \A k \in Conflicts : tp.sin_cos_map[k] = tlast.this.sin_cos_map[k]

\* one monomial with one term of power 1
SimpleVariable(P) ==
    /\ Len(P.monomials) = 1
    /\ Len(P.monomials[1].terms) = 1
    /\ P.monomials[1].terms[1].power = 1

\* C18: TrigPoly(q, s, c) throws when one of q, s, c is not a single simple
\* variable, so the key and the placeholders it registers are variables,
\* never the 0 that stands for no variable.
C18_SimpleVariablesOnly ==
    tlast.op = "TrigPoly" =>
        /\ (\E i \in 1..3 : ~SimpleVariable(tlast.arg[i])) => tlast.err = NotSimple
        /\ tlast.err = "none" =>
               \A k \in DOMAIN tp.sin_cos_map :
                   k # 0 /\ tp.sin_cos_map[k].s # 0 /\ tp.sin_cos_map[k].c # 0

\* every monomial is a constant or c * x^p: it has at most one term
SingleTerms(P) == \A m \in Monomials(P) : Len(m.terms) <= 1

\* p * (p - 1) * ... * (p - n + 1)
RECURSIVE FallingFactorial(_, _)
FallingFactorial(pw, n) ==
    IF n = 0 THEN 1 ELSE pw * FallingFactorial(pw - 1, n - 1)

\* what C19 says derivative(n) makes of the monomials ms, in their order
RECURSIVE DerivativeOf(_, _)
DerivativeOf(ms, n) ==
    IF ms = <<>> THEN <<>>
    ELSE LET m == Head(ms)
         IN  IF m.terms = <<>> \/ m.terms[1].power < n THEN DerivativeOf(Tail(ms), n)
             ELSE LET pw == m.terms[1].power
                      c == RMul(m.coefficient, FromInt(FallingFactorial(pw, n)))
                  IN  <<Monomial(c, IF pw = n THEN <<>>
                                    ELSE <<Term(m.terms[1].var, pw - n)>>)>>
                        \o DerivativeOf(Tail(ms), n)

\* C19: for a univariate polynomial and an order n >= 1, derivative(n) maps
\* each monomial c*x^p with p >= n to (c * p * (p-1) * ... * (p-n+1)) *
\* x^(p-n), a term-free constant monomial when p = n, and emits nothing for
\* constant monomials and for p < n; the result is flagged univariate and
\* has no term of power 0.
C19_DerivativeTermwise ==
    (/\ last.op = "derivative" /\ last.arg >= 1
     /\ last.this.is_univariate /\ SingleTerms(last.this))
    => /\ last.err = "none"
       /\ p.monomials = DerivativeOf(last.this.monomials, last.arg)
       /\ p.is_univariate
       /\ \A m \in Monomials(p) : \A l \in DOMAIN m.terms : m.terms[l].power # 0

\* the second derivative of a polynomial with a monomial of power 2 has been
\* taken, leaving the constant monomial 2c
C19_Witness ==
    /\ last.op = "derivative" /\ last.arg = 2 /\ last.err = "none"
    /\ last.this.is_univariate /\ SingleTerms(last.this)
    /\ \E m \in Monomials(last.this) :
         /\ m.terms # <<>> /\ m.terms[1].power = 2
         /\ Monomial(RMul(m.coefficient, FromInt(2)), <<>>) \in Monomials(p)

\* C20: for a univariate polynomial with a non-constant monomial,
\* integral(c) throws nothing, maps each non-constant monomial k*x^p to
\* (k/(p+1)) * x^(p+1), and the result has exactly one term-free monomial,
\* of coefficient c, so that the constant coefficient of the result is c.
C20_IntegralTermwise ==
    (/\ last.op = "integral"
     /\ last.this.is_univariate /\ SingleTerms(last.this) /\ HasTerm(last.this))
    => /\ last.err = "none"
       /\ \A k \in DOMAIN last.this.monomials :
            LET m == last.this.monomials[k]
            IN  m.terms # <<>> =>
                    p.monomials[k]
                      = Monomial(RDiv(m.coefficient, FromInt(m.terms[1].power + 1)),
                                 <<Term(m.terms[1].var, m.terms[1].power + 1)>>)
       /\ Cardinality({k \in DOMAIN p.monomials : p.monomials[k].terms = <<>>}) = 1
       /\ \A k \in DOMAIN p.monomials :
            p.monomials[k].terms = <<>> => p.monomials[k].coefficient = last.arg
       /\ getCoefficients(p).val[1] = last.arg

\* a polynomial with a constant monomial and a monomial of power 2 has been
\* integrated with the integration constant 2
C20_Witness ==
    /\ last.op = "integral" /\ last.err = "none" /\ last.arg = FromInt(2)
    /\ last.this.is_univariate /\ SingleTerms(last.this)
    /\ HasConstant(last.this)
    /\ \E m \in Monomials(last.this) : m.terms # <<>> /\ m.terms[1].power = 2
    /\ getCoefficients(p).val[1] = FromInt(2)

NameTooLong == "name exceeds max allowed"

\* C21: variableNameToId throws the name-too-long error for every name of 5
\* or more alphabet characters, also when the multiplier and name_part of a
\* long name wrap modulo 2^32 before the comparison with kMaxNamePart (the
\* index being one that is accepted, so that no other error applies).
C21_LongNameRejected ==
    (/\ isValidVariableName(name) /\ Len(name) > kNameLength
     /\ 1 <= idx /\ idx <= MaxId
     /\ npc # "start") =>
        /\ npc = "failed"
        /\ nerr = NameTooLong
        /\ id = U(0)

\* the monomial e * v
Linear(e, v) == Monomial(e, <<Term(v, 1)>>)

\* the monomial e * u * v
Product(e, u, v) == Monomial(e, <<Term(u, 1), Term(v, 1)>>)

\* the argument of the latest call is e1*v1 + e2*v2, e1 and e2 each 1 or -1,
\* v1 and v2 two mapped variables with four different placeholders
SignedPair(e1, v1, e2, v2) ==
    /\ tlast.this.poly.monomials = <<Linear(e1, v1), Linear(e2, v2)>>
    /\ v1 # v2
    /\ LET map == tlast.this.sin_cos_map
       IN  Cardinality({map[v1].s, map[v1].c, map[v2].s, map[v2].c}) = 4

Signs == {One, MinusOne}

\* C22: for a mapped variable v with the placeholders (s, c), sin(v) = 1*s,
\* sin(-v) = -1*s, cos(v) = 1*c and cos(-v) = 1*c; and for e1*v1 + e2*v2
\* with unit coefficients, sin is e1*s1*c2 + e2*c1*s2 and cos is
\* c1*c2 - (e1*e2)*s1*s2, so cos(x - y) = cx*cy + sx*sy and
\* sin(x - y) = sx*cy - cx*sy.
C22_SignsCarried ==
    tlast.op \in {"sin", "cos"} =>
        LET map == tlast.this.sin_cos_map
        IN  /\ \A e \in Signs : \A v \in DOMAIN map :
                   tlast.this.poly.monomials = <<Linear(e, v)>> =>
                       /\ tlast.err = "none"
                       /\ tlast.out.poly.monomials
                            = IF tlast.op = "sin" THEN <<Linear(e, map[v].s)>>
                              ELSE <<Linear(One, map[v].c)>>
            /\ \A e1, e2 \in Signs : \A v1, v2 \in DOMAIN map :
                   SignedPair(e1, v1, e2, v2) =>
                       /\ tlast.err = "none"
                       /\ tlast.out.poly.monomials
                            = IF tlast.op = "sin"
                              THEN <<Product(e1, map[v1].s, map[v2].c),
                                     Product(e2, map[v1].c, map[v2].s)>>
                              ELSE <<Product(One, map[v1].c, map[v2].c),
                                     Product(RNeg(RMul(e1, e2)), map[v1].s, map[v2].s)>>

\* cos has returned c1*c2 + s1*s2 for x - y
C22_Witness ==
    /\ tlast.op = "cos" /\ tlast.err = "none"
    /\ SignedPair(One, X, MinusOne, Y)
    /\ tp.poly.monomials = <<Product(One, c1, c2), Product(One, s1, s2)>>

NumMonomials(P) == Len(P.poly.monomials)

\* the arguments of the calls below sin(P) or cos(P), P included, down to
\* the depth fuel
RECURSIVE CallTree(_, _)
CallTree(P, fuel) ==
    IF fuel = 0 THEN {P}
    ELSE {P} \cup UNION {CallTree(A, fuel - 1) : A \in RecursiveArguments(P)}

\* the number of nested calls of sin(P) or cos(P), counted up to fuel
RECURSIVE CallDepth(_, _)
CallDepth(P, fuel) ==
    IF fuel = 0 THEN 0
    ELSE 1 + Max({0} \cup {CallDepth(A, fuel - 1) : A \in RecursiveArguments(P)})

\* the TrigPoly objects sin and cos can be or have been called on
TrigArguments ==
    {tp, tq} \cup (IF tlast.op \in {"sin", "cos"} THEN {tlast.this} ELSE {})

\* C23: for a TrigPoly p with at least one monomial, every call below
\* sin(p) and cos(p) is made on an argument with strictly fewer monomials
\* than its caller's and at least one, the nesting of calls is at most the
\* number of monomials of p, and a call that was made has ended, with a
\* result or with one of the errors of sin and cos.
C23_RecursionTerminates ==
    /\ \A P \in TrigArguments :
           NumMonomials(P) >= 1 =>
               /\ \A C \in CallTree(P, NumMonomials(P) + 1) :
                      \A A \in RecursiveArguments(C) :
                          1 <= NumMonomials(A) /\ NumMonomials(A) < NumMonomials(C)
               /\ CallDepth(P, NumMonomials(P) + 1) <= NumMonomials(P)
    /\ (tlast.op \in {"sin", "cos"} /\ NumMonomials(tlast.this) >= 1) =>
           \/ tlast.err = "none" /\ tp = tlast.out
           \/ tlast.err \in {SinDegree, CosDegree, Unmapped, PleaseImplementMe}

\* sin has returned for a sum of two monomials, after calls nested two deep
C23_Witness ==
    /\ tlast.op = "sin" /\ tlast.err = "none"
    /\ NumMonomials(tlast.this) = 2
    /\ \A m \in Monomials(tlast.this.poly) : m.terms # <<>>
    /\ CallDepth(tlast.this, 3) = 2
    /\ \E P \in {tp, tq} : NumMonomials(P) >= 4 /\ CallDepth(P, NumMonomials(P) + 1) >= 3

\* C24: unary minus on a TrigPoly, and scalar - TrigPoly, return a TrigPoly
\* whose polynomial is the operand's with every coefficient negated (plus
\* the scalar for the binary form) and whose SinCosMap is the operand's.
C24_NegationMirrors ==
    /\ tlast.op = "negate" =>
           /\ tlast.err = "none"
           /\ tp = TrigPoly(Negate(tlast.this.poly), tlast.this.sin_cos_map)
    /\ tlast.op = "scalar-" =>
           /\ tlast.err = "none"
           /\ tp = TrigPoly(PlusScalar(Negate(tlast.this.poly), tlast.arg),
                            tlast.this.sin_cos_map)

\* the product of value^power over the terms of ts that var_values assigns
RECURSIVE AssignedValue(_, _)
AssignedValue(ts, var_values) ==
    IF ts = <<>> THEN One
    ELSE RMul(IF Head(ts).var \in DOMAIN var_values
              THEN RPow(var_values[Head(ts).var], Head(ts).power)
              ELSE One,
              AssignedValue(Tail(ts), var_values))

\* the terms of ts that var_values does not assign, in their order
RECURSIVE Unassigned(_, _)
Unassigned(ts, var_values) ==
    IF ts = <<>> THEN <<>>
    ELSE (IF Head(ts).var \in DOMAIN var_values THEN <<>> ELSE <<Head(ts)>>)
           \o Unassigned(Tail(ts), var_values)

\* what C25 says evaluatePartial makes of each monomial of P
SubstitutedMonomials(P, var_values) ==
    [k \in DOMAIN P.monomials |->
       Monomial(RMul(P.monomials[k].coefficient,
                     AssignedValue(P.monomials[k].terms, var_values)),
                Unassigned(P.monomials[k].terms, var_values))]

\* C25 as claimed: evaluatePartial returns exactly one monomial per monomial
\* of the input, in the same order, each with the coefficient multiplied by
\* value^power for every assigned term, the assigned terms removed and the
\* others kept; monomials that become identical are not merged.
C25_NoMerging ==
    last.op = "evaluatePartial" =>
        p.monomials = SubstitutedMonomials(last.this, last.arg)

\* no two monomials of ms have the same exponents
NoSameExponents(ms) ==
    \A i, j \in DOMAIN ms : i # j => ~hasSameExponents(ms[i], ms[j])

\* C25 as amended: when no two of the substituted monomials have the same
\* exponents the result is as claimed; otherwise monomials that became
\* identical can be merged, so the result has at most as many monomials as
\* the input and each has the terms of a substituted monomial.
C25_EvaluatePartial ==
    last.op = "evaluatePartial" =>
        LET substituted == SubstitutedMonomials(last.this, last.arg)
        IN  /\ last.err = "none"
            /\ NoSameExponents(substituted) => p.monomials = substituted
            /\ Len(p.monomials) <= Len(substituted)
            /\ \A m \in Monomials(p) :
                   \E k \in DOMAIN substituted : substituted[k].terms = m.terms

\* x*y + y + x has been evaluated at y = 2: 2x and x are merged into 3x
C25_Witness ==
    /\ last.op = "evaluatePartial"
    /\ last.this = XYPlusYPlusX /\ last.arg = (Y :> FromInt(2))
    /\ p.monomials = <<Monomial(FromInt(3), <<Term(X, 1)>>), Monomial(FromInt(2), <<>>)>>

\* every variable of d occurs in m with at least d's power
Divides(d, m) ==
    \A v \in VariablesOf(d) : PowerOf(m.terms, v, 1) >= PowerOf(d.terms, v, 1)

\* C26: for monomials m and d with pairwise-distinct variables and non-zero
\* coefficients, m.factor(d) has the coefficient m.coefficient /
\* d.coefficient and for each variable the power of m minus the power of d
\* (no term of power 0) exactly when every variable of d occurs in m with at
\* least d's power, and is the term-free monomial of coefficient 0
\* otherwise; a quotient times d has the exponents of m.
C26_FactorQuotient ==
    (/\ last.op = "factor"
     /\ DistinctVariables(last.this) /\ DistinctVariables(last.arg)
     /\ last.this.coefficient # Zero /\ last.arg.coefficient # Zero)
    => LET m == last.this
           d == last.arg
       IN  IF Divides(d, m)
           THEN /\ p.coefficient = RDiv(m.coefficient, d.coefficient)
                /\ DistinctVariables(p)
                /\ ExponentVector(p)
                     = [v \in {w \in VariablesOf(m) :
                                 PowerOf(m.terms, w, 1) > PowerOf(d.terms, w, 1)} |->
                          PowerOf(m.terms, v, 1) - PowerOf(d.terms, v, 1)]
                /\ ExponentVector(MultiplyMonomials(p, d)) = ExponentVector(m)
           ELSE p = Monomial(Zero, <<>>)

\* x^2*y has been divided by x twice, leaving y
C26_Witness ==
    /\ last.op = "factor" /\ steps = 2
    /\ last.this.terms = <<Term(X, 1), Term(Y, 1)>>
    /\ last.arg.terms = <<Term(X, 1)>>
    /\ p.terms = <<Term(Y, 1)>>
    /\ p.coefficient # Zero

\* C27: sin(p) and cos(p) read no monomial outside p's list of monomials
\* and no term outside a monomial's list of terms, for every TrigPoly p, a
\* TrigPoly without monomials included.
C27_ReadsInRange ==
    tlast.op \in {"sin", "cos"} => tlast.err # OutOfRange

\* C28: when sin(p) or cos(p) returns, the SinCosMap of the result is the
\* SinCosMap of p, and so it is for every call below it: each is made on
\* an argument with p's map and, when it returns, returns p's map.
C28_MapUnchanged ==
    (tlast.op \in {"sin", "cos"} /\ tlast.err = "none") =>
        /\ tlast.out.sin_cos_map = tlast.this.sin_cos_map
        /\ tp = tlast.out
        /\ \A C \in CallTree(tlast.this, NumMonomials(tlast.this) + 1) :
               /\ C.sin_cos_map = tlast.this.sin_cos_map
               /\ sin(C).errs = {} /\ sin(C).val.sin_cos_map = tlast.this.sin_cos_map
               /\ cos(C).errs = {} /\ cos(C).val.sin_cos_map = tlast.this.sin_cos_map

\* cos has returned for x - y, whose map has the entries of x and of y
C28_Witness ==
    /\ tlast.op = "cos" /\ tlast.err = "none"
    /\ SignedPair(One, X, MinusOne, Y)
    /\ DOMAIN tp.sin_cos_map = {X, Y}
    /\ tp.sin_cos_map = tlast.this.sin_cos_map

\* C29: for a univariate polynomial P, P.derivative(0) throws nothing and is
\* isApprox-equal to P: it keeps every monomial of P, the constant monomial
\* included, with its coefficient and power.
C29_ZerothDerivative ==
    (last.op = "derivative" /\ last.arg = 0 /\ last.this.is_univariate) =>
        /\ last.err = "none"
        /\ isApprox(p, last.this) = [err |-> "none", val |-> TRUE]
        /\ HasConstant(last.this) => HasConstant(p)

\* C30: an identifier variableNameToId returns for a non-empty name over
\* the alphabet and an accepted index is even and at least 2, never the 0
\* that stands for no variable; so for the polynomial of such a variable
\* getSimpleVariable is 0 if and only if the polynomial is not one monomial
\* of one term of power 1.
C30_IdentifierNeverZero ==
    isValidVariableName(name) =>
        /\ npc \in {"encoded", "decoded"} =>
               /\ id[2] % 2 = 0
               /\ UGreater(id, U(1))
        /\ npc = "constructed" =>
               ((getSimpleVariable(p) = 0) <=> ~SimpleVariable(p))

====
